---- MODULE Spec2Model ----
(***************************************************************************)
(* Model of the captioning service: the task pipeline of                   *)
(* workers/processors.py (process_caption_task, _load_whisper_model) and   *)
(* the subtitle chunker, renderer and burn-in of utils/ffmpeg_utils.py.    *)
(***************************************************************************)
EXTENDS Integers, Sequences, FiniteSets, TLC

(***************************************************************************)
(* Bounds of the model.                                                    *)
(***************************************************************************)
NumTasks == 2
MaxCalls == 3

Tasks == 1..NumTasks

None == "None"

\* Model-size identifiers a caller may request.
Sizes == {"tiny", "base"}

\* processors.py line 66: the pipeline always asks for this size.
PipelineModelSize == "base"

VARIABLES
    pc,         \* per task: position in process_caption_task / _load_whisper_model
    status,     \* per task: the status held by the status store
    trace,      \* per task: status writes and pipeline steps, in execution order
    fault,      \* per task: the last entry of trace when an exception was raised
                \* ("nothing" when none had been logged), or None
    videoFile,  \* per task: whether the downloaded file exists at video_path
    caller,     \* per task: "task" (inside process_caption_task) or "direct"
    cache,      \* global _whisper_model_cache
    cacheSize,  \* global _whisper_model_size
    loads,      \* calls made to whisper.load_model, in order (size of each)
    arg,        \* per task: model_size argument of the running _load_whisper_model
    tmp,        \* per task: value returned by whisper.load_model, not yet stored
    got,        \* per task: value returned by _load_whisper_model
    seen,       \* per task: the two globals as they were when the direct call began
    reqs,       \* completed direct calls of _load_whisper_model, in order
    cpc,        \* subtitle writer: "idle" or "returned"
    cin,        \* subtitle writer: the arguments of the call
    cout,       \* subtitle writer: the chunks the call produced, in order
    bpc,        \* burn_subtitles: position in the function
    bcall,      \* burn_subtitles: the arguments of the call
    busing,     \* burn_subtitles: the branch taken, "ass" or "srt"
    bpath,      \* burn_subtitles: ass_path / srt_path
    fs,         \* the file system: what each path holds
    bwrote,     \* burn_subtitles: whether the call has opened its sidecar for writing
    bexc,       \* burn_subtitles: the exception propagating out of the try block
    bproc,      \* burn_subtitles: exit status and stderr of the tool, once it has run
    bdiag,      \* burn_subtitles: the stderr text the propagating exception carries
    blog,       \* burn_subtitles: the error records logged, in order
    fpc,        \* timestamp formatter: "idle" or "returned"
    fin,        \* timestamp formatter: the function called and its two inputs
    fout,       \* timestamp formatter: the fields and the text produced for each input
    tpc,        \* builder: position in merge_video_audio / concat_videos / add_background_music
    tcall,      \* builder: the function called and its arguments
    tprobe,     \* builder: what the ffprobe process did (started, exit status, stdout)
    tfail,      \* builder: the exception raised inside the probe function, or None
    tval,       \* builder: the value the probe function returned
    tlog,       \* builder: warnings and errors logged, in order
    tcmd,       \* builder: the ffmpeg command built
    tproc,      \* builder: exit status and stderr of ffmpeg, once it has run
    texc,       \* builder: the exception propagating out of the builder
    tret        \* builder: whether the builder returned normally

taskVars == <<pc, status, trace, fault, videoFile, caller>>
loadVars == <<cache, cacheSize, loads, arg, tmp, got, seen, reqs>>
chunkVars == <<cpc, cin, cout>>
burnVars == <<bpc, bcall, busing, bpath, fs, bwrote, bexc, bproc, bdiag, blog>>
fmtVars == <<fpc, fin, fout>>
toolVars == <<tpc, tcall, tprobe, tfail, tval, tlog, tcmd, tproc, texc, tret>>
vars == <<taskVars, loadVars, chunkVars, burnVars, fmtVars, toolVars>>

StatusWrites == {"RUNNING", "SUCCEEDED", "FAILED"}

\* A model object as returned by whisper.load_model: the size it was loaded
\* for and the ordinal of the load call that produced it.
Model(size, n) == [size |-> size, id |-> n]

\* The value None where a model object is expected.
NoModel == [size |-> None, id |-> 0]

(***************************************************************************)
(* Python floats (IEEE-754 binary64) as the subtitle code uses them: only  *)
(* non-negative finite values occur.  A value is held exactly, as          *)
(* NumLimbs digits in base 2^LimbBits, least significant first, of which   *)
(* the first FracLimbs are the fraction.  An arithmetic operation computes *)
(* the exact result and rounds it to MantBits significant bits, ties to    *)
(* even, as the hardware does.                                             *)
(***************************************************************************)
LimbBits == 13
NumLimbs == 8
FracLimbs == 6
MantBits == 53
Base == 2 ^ LimbBits

Limbs == 1..NumLimbs

FZero == [i \in Limbs |-> 0]

\* float(n) for an integer 0 <= n < Base^2
FromInt(n) ==
    [i \in Limbs |-> IF i = FracLimbs + 1 THEN n % Base
                     ELSE IF i = FracLimbs + 2 THEN n \div Base
                     ELSE 0]

\* int(x): the integer part of x
IntPart(x) == x[FracLimbs + 1] + Base * x[FracLimbs + 2]

RECURSIVE AddC(_, _, _, _)
AddC(a, b, i, c) ==
    IF i > NumLimbs THEN <<>>
    ELSE LET s == a[i] + b[i] + c
         IN <<s % Base>> \o AddC(a, b, i + 1, s \div Base)

\* exact a + b
XAdd(a, b) == AddC(a, b, 1, 0)

RECURSIVE SubC(_, _, _, _)
SubC(a, b, i, c) ==
    IF i > NumLimbs THEN <<>>
    ELSE LET s == a[i] - b[i] - c
         IN IF s < 0 THEN <<s + Base>> \o SubC(a, b, i + 1, 1)
                     ELSE <<s>> \o SubC(a, b, i + 1, 0)

\* exact a - b, for a >= b
XSub(a, b) == SubC(a, b, 1, 0)

RECURSIVE MulC(_, _, _, _)
MulC(a, k, i, c) ==
    IF i > NumLimbs THEN <<>>
    ELSE LET s == a[i] * k + c
         IN <<s % Base>> \o MulC(a, k, i + 1, s \div Base)

\* exact a * k, for a small integer k >= 0
XMul(a, k) == MulC(a, k, 1, 0)

\* remainder left after dividing the limbs NumLimbs..i of a by n
RECURSIVE RemAt(_, _, _)
RemAt(a, n, i) ==
    IF i > NumLimbs THEN 0 ELSE (RemAt(a, n, i + 1) * Base + a[i]) % n

\* a / n cut off below the last limb, and whether anything was cut off
XDiv(a, n) == [i \in Limbs |-> (RemAt(a, n, i + 1) * Base + a[i]) \div n]
XDivInexact(a, n) == RemAt(a, n, 1) # 0

RECURSIVE CmpFrom(_, _, _)
CmpFrom(a, b, i) ==
    IF i = 0 THEN 0
    ELSE IF a[i] > b[i] THEN 1
    ELSE IF a[i] < b[i] THEN -1
    ELSE CmpFrom(a, b, i - 1)

\* -1, 0 or 1 as a < b, a = b or a > b
Cmp(a, b) == CmpFrom(a, b, NumLimbs)
Leq(a, b) == Cmp(a, b) <= 0

\* |a - b|, exact
AbsDiff(a, b) == IF Leq(b, a) THEN XSub(a, b) ELSE XSub(b, a)

TopLimb(a) ==
    LET S == {i \in Limbs : a[i] # 0}
    IN IF S = {} THEN 0 ELSE CHOOSE i \in S : \A j \in S : j <= i

RECURSIVE BitsOf(_)
BitsOf(n) == IF n = 0 THEN 0 ELSE 1 + BitsOf(n \div 2)

\* number of bits from the lowest representable bit up to the leading one
BitLen(a) ==
    IF TopLimb(a) = 0 THEN 0
    ELSE (TopLimb(a) - 1) * LimbBits + BitsOf(a[TopLimb(a)])

\* Round an exact value to the nearest float, ties to even; sticky tells that
\* the exact value has further non-zero bits below the last limb.
RoundF(a, sticky) ==
    LET p == BitLen(a) - MantBits
    IN IF p <= 0 THEN a
       ELSE LET j == p \div LimbBits
                r == p % LimbBits
                hj == ((p - 1) \div LimbBits) + 1
                hr == (p - 1) % LimbBits
                halfBit == (a[hj] \div (2 ^ hr)) % 2
                belowHalf == \/ a[hj] % (2 ^ hr) # 0
                             \/ \E i \in 1..(hj - 1) : a[i] # 0
                             \/ sticky
                lsb == (a[j + 1] \div (2 ^ r)) % 2
                up == halfBit = 1 /\ (belowHalf \/ lsb = 1)
                trunc == [i \in Limbs |->
                             IF i <= j THEN 0
                             ELSE IF i = j + 1 THEN (a[i] \div (2 ^ r)) * (2 ^ r)
                             ELSE a[i]]
                unit == [i \in Limbs |-> IF i = j + 1 THEN 2 ^ r ELSE 0]
            IN IF up THEN XAdd(trunc, unit) ELSE trunc

\* a + b, a - b (a >= b), a * k and a / n as Python computes them on floats
FAdd(a, b) == RoundF(XAdd(a, b), FALSE)
FSub(a, b) == RoundF(XSub(a, b), FALSE)
FMulInt(a, k) == RoundF(XMul(a, k), FALSE)
FDivInt(a, n) == RoundF(XDiv(a, n), XDivInexact(a, n))

\* The float nearest to cs/100 seconds: a timestamp given in centiseconds.
Secs(cs) == FDivInt(FromInt(cs), 100)

(***************************************************************************)
(* Text: a Python str is a sequence of one-character strings.              *)
(***************************************************************************)
WhiteSpace == {" ", "\t", "\n"}

RECURSIVE LStrip(_)
LStrip(s) == IF s # <<>> /\ Head(s) \in WhiteSpace THEN LStrip(Tail(s)) ELSE s

RECURSIVE RStrip(_)
RStrip(s) ==
    IF s # <<>> /\ s[Len(s)] \in WhiteSpace THEN RStrip(SubSeq(s, 1, Len(s) - 1)) ELSE s

\* str.strip()
Strip(s) == RStrip(LStrip(s))

\* the length of the longest prefix of s without whitespace
RECURSIVE WordLen(_)
WordLen(s) == IF s = <<>> \/ Head(s) \in WhiteSpace THEN 0 ELSE 1 + WordLen(Tail(s))

\* str.split(): the maximal runs of non-whitespace characters, in order
RECURSIVE Split(_)
Split(s) ==
    IF s = <<>> THEN <<>>
    ELSE IF Head(s) \in WhiteSpace THEN Split(Tail(s))
    ELSE <<SubSeq(s, 1, WordLen(s))>> \o Split(SubSeq(s, WordLen(s) + 1, Len(s)))

\* " ".join(words)
RECURSIVE Join(_)
Join(ws) ==
    IF ws = <<>> THEN <<>>
    ELSE IF Len(ws) = 1 THEN ws[1]
    ELSE ws[1] \o <<" ">> \o Join(Tail(ws))

UpperMap ==
    ("a" :> "A") @@ ("b" :> "B") @@ ("c" :> "C") @@ ("d" :> "D") @@ ("e" :> "E") @@
    ("f" :> "F") @@ ("g" :> "G") @@ ("h" :> "H") @@ ("i" :> "I") @@ ("z" :> "Z")

\* str.upper()
Upper(s) == [i \in 1..Len(s) |-> IF s[i] \in DOMAIN UpperMap THEN UpperMap[s[i]] ELSE s[i]]

\* str(n) for n >= 0
RECURSIVE Digits(_)
Digits(n) ==
    LET d == <<"0", "1", "2", "3", "4", "5", "6", "7", "8", "9">>[(n % 10) + 1]
    IN IF n < 10 THEN <<d>> ELSE Digits(n \div 10) \o <<d>>

\* f"{n:0w}": n in decimal, padded with zeros on the left to w characters
RECURSIVE ZeroPad(_, _)
ZeroPad(s, w) == IF Len(s) >= w THEN s ELSE ZeroPad(<<"0">> \o s, w)
Padded(n, w) == ZeroPad(Digits(n), w)

(***************************************************************************)
(* format_time (ffmpeg_utils.py 63-77) and format_time_ass (80-94).        *)
(* divmod, // and % on non-negative floats with an integer divisor are     *)
(* exact: the quotient is the integer quotient of the integer part and the *)
(* remainder keeps the fraction.                                           *)
(***************************************************************************)
\* the fraction of x, x - int(x)
FracOf(x) == FSub(x, FromInt(IntPart(x)))

\* Variant of TimeFields: the milliseconds are rounded to the nearest whole number.
TimeFields_RoundNearest(x) ==
    <<IntPart(x) \div 3600,
      (IntPart(x) % 3600) \div 60,
      (IntPart(x) % 3600) % 60,
      IntPart(FAdd(FMulInt(FracOf(x), 1000), FDivInt(FromInt(1), 2)))>>

\* lines 73-75: hours, minutes, int(secs), milliseconds
TimeFields(x) ==
    <<IntPart(x) \div 3600,
      (IntPart(x) % 3600) \div 60,
      (IntPart(x) % 3600) % 60,
      IntPart(FMulInt(FracOf(x), 1000))>>

\* line 77: "HH:MM:SS,mmm"
format_time(x) ==
    LET f == TimeFields(x)
    IN Padded(f[1], 2) \o <<":">> \o Padded(f[2], 2) \o <<":">> \o Padded(f[3], 2)
       \o <<",">> \o Padded(f[4], 3)

\* lines 90-93: h, m, s, cs
TimeFieldsAss(x) ==
    <<IntPart(x) \div 3600,
      (IntPart(x) % 3600) \div 60,
      IntPart(x) % 60,
      IntPart(FMulInt(FracOf(x), 100))>>

\* line 94: "H:MM:SS.CC"
format_time_ass(x) ==
    LET f == TimeFieldsAss(x)
    IN Digits(f[1]) \o <<":">> \o Padded(f[2], 2) \o <<":">> \o Padded(f[3], 2)
       \o <<".">> \o Padded(f[4], 2)

(***************************************************************************)
(* Calls of format_time and format_time_ass on a pair of inputs s1 <= s2.  *)
(***************************************************************************)
\* whole seconds and ten-thousandths of a second the inputs are built from
Wholes == {0, 1, 59, 60, 3599, 3600, 86399}
Ticks == {0, 1, 90, 300, 5700, 9990, 9996, 9999}

\* the float whole + ticks/10000
TimeOf(whole, ticks) == FAdd(FromInt(whole), FDivInt(FromInt(ticks), 10000))

TimeInputs == {TimeOf(w, k) : w \in Wholes, k \in Ticks}

NoFmtCall == [fn |-> "none", s1 |-> FZero, s2 |-> FZero]

FmtIdle ==
    /\ fpc = "idle"
    /\ fin = NoFmtCall
    /\ fout = <<>>

\* format_time(s1) and format_time(s2)
CallFormatTime ==
    /\ fpc = "idle"
    /\ \E s1 \in TimeInputs, s2 \in TimeInputs :
          /\ Leq(s1, s2)
          /\ fin' = [fn |-> "format_time", s1 |-> s1, s2 |-> s2]
          /\ fout' = <<[fields |-> TimeFields(s1), text |-> format_time(s1)],
                       [fields |-> TimeFields(s2), text |-> format_time(s2)]>>
    /\ fpc' = "returned"
    /\ UNCHANGED <<taskVars, loadVars, chunkVars, burnVars, toolVars>>

\* format_time_ass(s1) and format_time_ass(s2)
CallFormatTimeAss ==
    /\ fpc = "idle"
    /\ \E s1 \in TimeInputs, s2 \in TimeInputs :
          /\ Leq(s1, s2)
          /\ fin' = [fn |-> "format_time_ass", s1 |-> s1, s2 |-> s2]
          /\ fout' = <<[fields |-> TimeFieldsAss(s1), text |-> format_time_ass(s1)],
                       [fields |-> TimeFieldsAss(s2), text |-> format_time_ass(s2)]>>
    /\ fpc' = "returned"
    /\ UNCHANGED <<taskVars, loadVars, chunkVars, burnVars, toolVars>>

\* the caller takes the results
FmtDone ==
    /\ fpc = "returned"
    /\ fpc' = "idle"
    /\ fin' = NoFmtCall
    /\ fout' = <<>>
    /\ UNCHANGED <<taskVars, loadVars, chunkVars, burnVars, toolVars>>

(***************************************************************************)
(* The chunker shared by write_srt (108-128) and write_ass (195-216).      *)
(***************************************************************************)
Min(a, b) == IF a < b THEN a ELSE b

\* lines 117-120: " ".join(words[i:i + max_words_per_line]) for i in
\* range(0, len(words), max_words_per_line)
RECURSIVE Groups(_, _)
Groups(words, m) ==
    IF words = <<>> THEN <<>>
    ELSE <<Join(SubSeq(words, 1, Min(m, Len(words))))>>
         \o Groups(SubSeq(words, Min(m, Len(words)) + 1, Len(words)), m)

\* Variant of Chunks: a text of exactly max_words_per_line words is re-joined.
Chunks_StrictLess(text, m) ==
    IF Len(Split(text)) < m THEN <<text>> ELSE Groups(Split(text), m)

\* Variant of Chunks: the group that would hold a single last word is dropped.
Chunks_DropShortTail(text, m) ==
    IF Len(Split(text)) <= m THEN <<text>>
    ELSE Groups(SubSeq(Split(text), 1, Len(Split(text)) - (Len(Split(text)) % m)), m)

\* lines 114-120: the chunk texts of a segment text already stripped
Chunks(text, m) ==
    IF Len(Split(text)) <= m THEN <<text>> ELSE Groups(Split(text), m)

\* Variant of ChunkDuration: the duration is divided among one chunk too many.
ChunkDuration_OneMore(duration, chunks) == FDivInt(duration, Len(chunks) + 1)

\* line 121: chunk_duration = duration / len(chunks)
ChunkDuration(duration, chunks) == FDivInt(duration, Len(chunks))

\* lines 123-124: start + (idx * chunk_duration), idx counted from 0
ChunkTime(start, idx, cd) == FAdd(start, FMulInt(cd, idx))

\* lines 109-128: the entries write_srt appends for one segment, the first
\* of them numbered counter
SrtEntries(seg, m, counter) ==
    LET text == Strip(seg.text)
        chunks == Chunks(text, m)
        cd == ChunkDuration(FSub(seg.end, seg.start), chunks)
    IN [i \in 1..Len(chunks) |->
           [counter |-> counter + i - 1,
            text |-> chunks[i],
            start |-> ChunkTime(seg.start, i - 1, cd),
            end |-> ChunkTime(seg.start, i, cd),
            startText |-> format_time(ChunkTime(seg.start, i - 1, cd)),
            endText |-> format_time(ChunkTime(seg.start, i, cd)),
            fwords |-> <<>>,
            line |-> chunks[i]]]

\* lines 106-129: write_srt over the whole list of segments
RECURSIVE write_srt_from(_, _, _)
write_srt_from(subtitles, m, counter) ==
    IF subtitles = <<>> THEN <<>>
    ELSE LET es == SrtEntries(Head(subtitles), m, counter)
         IN es \o write_srt_from(Tail(subtitles), m, counter + Len(es))

write_srt(subtitles, m) == write_srt_from(subtitles, m, 1)

(***************************************************************************)
(* write_ass (132-249): the Dialogue events; the fixed header is left out. *)
(***************************************************************************)
\* lines 159-163: hex_to_ass_color, "#RRGGBB" -> "&H" alpha BB GG RR
RECURSIVE LStripHash(_)
LStripHash(s) == IF s # <<>> /\ Head(s) = "#" THEN LStripHash(Tail(s)) ELSE s

Slice(s, a, b) == SubSeq(s, Min(a, Len(s)) + 1, Min(b, Len(s)))

hex_to_ass_color(hex) ==
    LET h == LStripHash(hex)
    IN <<"&", "H", "0", "0">> \o Slice(h, 4, 6) \o Slice(h, 2, 4) \o Slice(h, 0, 2)

PrimaryHex == <<"#", "F", "F", "F", "F", "F", "F">>
HighlightHex == <<"#", "F", "F", "F", "F", "0", "0">>

\* line 239: {\c<highlight>}word{\c<primary>}
Wrap(word) ==
    <<"{", "\\", "c">> \o hex_to_ass_color(HighlightHex) \o <<"}">> \o word
    \o <<"{", "\\", "c">> \o hex_to_ass_color(PrimaryHex) \o <<"}">>

\* highlight-position as settings.get('highlight-position', 'last') returns it
First == [kind |-> "first", k |-> 0]
Last == [kind |-> "last", k |-> 0]
Index(k) == [kind |-> "index", k |-> k]
Absent == [kind |-> "absent", k |-> 0]

GetHighlightPos(hp) == IF hp = Absent THEN Last ELSE hp

\* Variant of ShouldHighlight: "last" is compared with the word count.
ShouldHighlight_LastOffByOne(hp, word_idx, n) ==
    \/ hp.kind = "first" /\ word_idx = 0
    \/ hp.kind = "last" /\ word_idx = n
    \/ hp.kind = "index" /\ word_idx = hp.k

\* lines 230-236: should_highlight for the word at word_idx (from 0) of n words
ShouldHighlight(hp, word_idx, n) ==
    \/ hp.kind = "first" /\ word_idx = 0
    \/ hp.kind = "last" /\ word_idx = n - 1
    \/ hp.kind = "index" /\ word_idx = hp.k

\* lines 222-245: formatted_words for one chunk
FormattedWords(chunk, hp) ==
    LET ws == Split(chunk)
    IN [i \in 1..Len(ws) |->
           IF ShouldHighlight(GetHighlightPos(hp), i - 1, Len(ws)) THEN Wrap(ws[i]) ELSE ws[i]]

\* lines 225-245: formatted_text
FormattedText(chunk, hp) ==
    IF Len(Split(chunk)) > 0 THEN Join(FormattedWords(chunk, hp)) ELSE chunk

\* lines 196-247: the events write_ass appends for one segment
AssEvents(seg, m, hp) ==
    LET text == Upper(Strip(seg.text))
        chunks == Chunks(text, m)
        cd == ChunkDuration(FSub(seg.end, seg.start), chunks)
    IN [i \in 1..Len(chunks) |->
           [counter |-> 0,
            text |-> chunks[i],
            start |-> ChunkTime(seg.start, i - 1, cd),
            end |-> ChunkTime(seg.start, i, cd),
            startText |-> format_time_ass(ChunkTime(seg.start, i - 1, cd)),
            endText |-> format_time_ass(ChunkTime(seg.start, i, cd)),
            fwords |-> FormattedWords(chunks[i], hp),
            line |-> FormattedText(chunks[i], hp)]]

\* lines 195-249: write_ass over the whole list of segments
RECURSIVE write_ass(_, _, _)
write_ass(subtitles, m, hp) ==
    IF subtitles = <<>> THEN <<>>
    ELSE AssEvents(Head(subtitles), m, hp) \o write_ass(Tail(subtitles), m, hp)

(***************************************************************************)
(* Calls of the two writers: the inputs.                                   *)
(***************************************************************************)
MaxWords == 7
MaxM == 3

Alphabet == <<"a", "b", "c", "d", "e", "f", "g", "h", "i">>

\* the i-th word of the test texts
Word(i) ==
    IF i % 3 = 1 THEN <<Alphabet[i]>>
    ELSE IF i % 3 = 2 THEN <<Alphabet[i], "z">>
    ELSE <<"Q", Alphabet[i]>>

RECURSIVE JoinWith(_, _)
JoinWith(ws, sep) ==
    IF ws = <<>> THEN <<>>
    ELSE IF Len(ws) = 1 THEN ws[1]
    ELSE ws[1] \o sep \o JoinWith(Tail(ws), sep)

\* a text of k words: either single spaces and nothing around, or double
\* spaces and whitespace around
Texts ==
    {JoinWith([i \in 1..k |-> Word(i)], <<" ">>) : k \in 0..MaxWords}
    \cup {<<"\t">> \o JoinWith([i \in 1..k |-> Word(i)], <<" ", " ">>) \o <<" ", "\n">> :
             k \in 0..MaxWords}

\* (start, end) of a segment, in centiseconds
Intervals == {<<0, 0>>, <<0, 42>>, <<6, 58>>, <<42, 100>>}

Segments ==
    {[start |-> Secs(iv[1]), end |-> Secs(iv[2]), text |-> tx] : iv \in Intervals, tx \in Texts}

HighlightPositions == {First, Last, Absent} \cup {Index(k) : k \in (-1)..MaxM}

NoCall == [fn |-> "none", subtitles |-> <<>>, m |-> 0, hp |-> Absent]

ChunkInit ==
    /\ cpc = "idle"
    /\ cin = NoCall
    /\ cout = <<>>

\* write_srt(subtitles, max_words_per_line)
CallWriteSrt ==
    /\ cpc = "idle"
    /\ \E seg \in Segments, m \in 1..MaxM :
          /\ cin' = [fn |-> "write_srt", subtitles |-> <<seg>>, m |-> m, hp |-> Absent]
          /\ cout' = write_srt(<<seg>>, m)
    /\ cpc' = "returned"
    /\ UNCHANGED <<taskVars, loadVars, burnVars, fmtVars, toolVars>>

\* write_ass(subtitles, max_words_per_line, settings)
CallWriteAss ==
    /\ cpc = "idle"
    /\ \E seg \in Segments, m \in 1..MaxM, hp \in HighlightPositions :
          /\ cin' = [fn |-> "write_ass", subtitles |-> <<seg>>, m |-> m, hp |-> hp]
          /\ cout' = write_ass(<<seg>>, m, hp)
    /\ cpc' = "returned"
    /\ UNCHANGED <<taskVars, loadVars, burnVars, fmtVars, toolVars>>

\* the caller takes the result; the writers keep no state between calls
WriterDone ==
    /\ cpc = "returned"
    /\ cpc' = "idle"
    /\ cin' = NoCall
    /\ cout' = <<>>
    /\ UNCHANGED <<taskVars, loadVars, burnVars, fmtVars, toolVars>>

(***************************************************************************)
(* burn_subtitles (ffmpeg_utils.py 252-412).                               *)
(***************************************************************************)
\* str.replace(old, new): every occurrence of old, left to right
RECURSIVE ReplaceAll(_, _, _)
ReplaceAll(s, old, new) ==
    IF Len(s) < Len(old) THEN s
    ELSE IF SubSeq(s, 1, Len(old)) = old
         THEN new \o ReplaceAll(SubSeq(s, Len(old) + 1, Len(s)), old, new)
         ELSE <<Head(s)>> \o ReplaceAll(Tail(s), old, new)

Mp4 == <<".", "m", "p", "4">>
TempAss == <<"_", "t", "e", "m", "p", ".", "a", "s", "s">>
TempSrt == <<"_", "t", "e", "m", "p", ".", "s", "r", "t">>

\* the settings argument: None, or a dict of which two keys matter here;
\* useAss is "true", "false" or "absent", hp is Absent when
\* settings.get("highlight-position") returns None
NoSettings == [given |-> FALSE, useAss |-> "absent", hp |-> Absent]
SettingsDict(useAss, hp) == [given |-> TRUE, useAss |-> useAss, hp |-> hp]

\* lines 265-280: the defaults that replace settings=None
DefaultSettings == SettingsDict("true", Last)
EffectiveSettings(settings) == IF settings.given THEN settings ELSE DefaultSettings

\* Variant of UseAss: the highlight position is tested for truth, not for None.
UseAss_Truthy(settings) ==
    \/ EffectiveSettings(settings).useAss = "true"
    \/ EffectiveSettings(settings).hp \notin {Absent, Index(0)}

\* line 287: settings.get("use-ass", False) or
\*           settings.get("highlight-position") is not None
UseAss(settings) ==
    \/ EffectiveSettings(settings).useAss = "true"
    \/ EffectiveSettings(settings).hp # Absent

\* lines 291 and 344: the sidecar path
SidecarPath(video_path, use_ass) ==
    ReplaceAll(video_path, Mp4, IF use_ass THEN TempAss ELSE TempSrt)

VideoPaths ==
    {<<"v">> \o Mp4, <<"v", ".", "m", "o", "v">>, <<"a">> \o Mp4 \o <<"-", "v">> \o Mp4}

OutputPath == <<"o", "u", "t">> \o Mp4

BurnSettings ==
    {NoSettings}
    \cup {SettingsDict(u, h) : u \in {"true", "false", "absent"},
                              h \in {Absent, First, Last, Index(0)}}

AllPaths ==
    VideoPaths \cup {OutputPath}
    \cup {SidecarPath(v, a) : v \in VideoPaths, a \in BOOLEAN}

NoPath == <<>>
\* what the external tool leaves behind: its exit status and its stderr text
FailureCodes == {1, -9}
Diagnostics == {"", "Invalid data found when processing input"}
NoProc == [rc |-> 0, stderr |-> None]

NoBurnCall == [video_path |-> NoPath, settings |-> NoSettings]

\* no call of burn_subtitles is running
BurnIdle ==
    /\ bpc = "idle"
    /\ bcall = NoBurnCall
    /\ busing = "none"
    /\ bpath = NoPath
    /\ fs = [p \in AllPaths |-> "absent"]
    /\ bwrote = FALSE
    /\ bexc = None
    /\ bproc = NoProc
    /\ bdiag = None
    /\ blog = <<>>

\* a call burn_subtitles(video_path, srt_text, output_path, settings) begins;
\* the input video is on disk
BurnInit ==
    /\ bpc = "start"
    /\ \E v \in VideoPaths, st \in BurnSettings :
          /\ bcall = [video_path |-> v, settings |-> st]
          /\ fs = [p \in AllPaths |-> IF p = v THEN "video" ELSE "absent"]
    /\ busing = "none"
    /\ bpath = NoPath
    /\ bwrote = FALSE
    /\ bexc = None
    /\ bproc = NoProc
    /\ bdiag = None
    /\ blog = <<>>

\* lines 287-291 / 344: choose the format and derive the sidecar path
BSelect ==
    /\ bpc = "start"
    /\ busing' = IF UseAss(bcall.settings) THEN "ass" ELSE "srt"
    /\ bpath' = SidecarPath(bcall.video_path, UseAss(bcall.settings))
    /\ bpc' = "open"
    /\ UNCHANGED <<bproc, bdiag, blog, bcall, fs, bwrote, bexc, taskVars, loadVars, chunkVars, fmtVars, toolVars>>

\* lines 293 / 346: open(path, "w") creates or truncates the file, or raises
BOpen ==
    /\ bpc = "open"
    /\ \/ /\ fs' = [fs EXCEPT ![bpath] = "empty"]
          /\ bwrote' = TRUE
          /\ bpc' = "write"
          /\ UNCHANGED bexc
       \/ /\ bexc' = "OSError"
          /\ bpc' = "finally"
          /\ UNCHANGED <<fs, bwrote>>
    /\ UNCHANGED <<bproc, bdiag, blog, bcall, busing, bpath, taskVars, loadVars, chunkVars, fmtVars, toolVars>>

\* lines 294 / 347: write(srt_text) and close, or raise with the file left behind
BWrite ==
    /\ bpc = "write"
    /\ \/ /\ fs' = [fs EXCEPT ![bpath] = "subtitles"]
          /\ bpc' = "prepare"
          /\ UNCHANGED bexc
       \/ /\ bexc' = "OSError"
          /\ bpc' = "finally"
          /\ UNCHANGED fs
    /\ UNCHANGED <<bproc, bdiag, blog, bcall, busing, bpath, bwrote, taskVars, loadVars, chunkVars, fmtVars, toolVars>>

\* lines 300-320 (read the file back for the log, build cmd) and 349-391
\* (convert the colours, build the filter and cmd): completes or raises
BPrepare ==
    /\ bpc = "prepare"
    /\ \/ bpc' = "run" /\ UNCHANGED bexc
       \/ bexc' = "Exception" /\ bpc' = "finally"
    /\ UNCHANGED <<bproc, bdiag, blog, bcall, busing, bpath, fs, bwrote, taskVars, loadVars, chunkVars, fmtVars, toolVars>>

\* lines 322-338 / 393-409: subprocess.run(cmd, check=True), whatever the file
\* at video_path holds.  The tool may or may not have written the output when
\* it exits.  Exit status 0: lines 327-331 / 398-402 log an error when the
\* output file does not exist, and the call goes on to return.  A non-zero
\* exit: CalledProcessError carrying the tool's stderr, logged and re-raised by
\* lines 336-338 / 407-409.  Or the tool cannot be started.
BRun ==
    /\ bpc = "run"
    /\ \/ /\ \E d \in Diagnostics, out \in BOOLEAN :
                /\ bproc' = [rc |-> 0, stderr |-> d]
                /\ fs' = IF out THEN [fs EXCEPT ![OutputPath] = "output"] ELSE fs
                /\ blog' = IF out THEN blog
                           ELSE Append(blog, [level |-> "error", by |-> "burn_subtitles",
                                              text |-> "Output file does not exist"])
          /\ UNCHANGED <<bexc, bdiag>>
       \/ /\ \E rc \in FailureCodes, d \in Diagnostics, out \in BOOLEAN :
                /\ bproc' = [rc |-> rc, stderr |-> d]
                /\ fs' = IF out THEN [fs EXCEPT ![OutputPath] = "output"] ELSE fs
                /\ bdiag' = d
                /\ blog' = Append(blog, [level |-> "error", by |-> "burn_subtitles",
                                         text |-> d])
          /\ bexc' = "CalledProcessError"
       \/ /\ bexc' = "FileNotFoundError"
          /\ UNCHANGED <<fs, bproc, bdiag, blog>>
    /\ bpc' = "finally"
    /\ UNCHANGED <<bcall, busing, bpath, bwrote, taskVars, loadVars, chunkVars, fmtVars, toolVars>>

\* Variant of BFinally: the sidecar is removed only when nothing was raised.
BFinally_OnSuccessOnly ==
    /\ bpc = "finally"
    /\ fs' = IF bexc = None THEN [fs EXCEPT ![bpath] = "absent"] ELSE fs
    /\ bpc' = "done"
    /\ UNCHANGED <<bproc, bdiag, blog, bcall, busing, bpath, bwrote, bexc, taskVars, loadVars, chunkVars, fmtVars, toolVars>>

\* lines 339-341 / 410-412: finally: if os.path.exists(path): os.remove(path);
\* then the call returns, or the exception leaves the function
BFinally ==
    /\ bpc = "finally"
    /\ fs' = IF fs[bpath] # "absent" THEN [fs EXCEPT ![bpath] = "absent"] ELSE fs
    /\ bpc' = "done"
    /\ UNCHANGED <<bproc, bdiag, blog, bcall, busing, bpath, bwrote, bexc, taskVars, loadVars, chunkVars, fmtVars, toolVars>>

(***************************************************************************)
(* merge_video_audio (415-494), concat_videos (497-525) and                *)
(* add_background_music (528-593), with the two probe functions            *)
(* video_has_audio (8-33) and get_video_duration (36-60) they call.        *)
(***************************************************************************)
DigitChars == {"0", "1", "2", "3", "4", "5", "6", "7", "8", "9"}
DigitSeq == <<"0", "1", "2", "3", "4", "5", "6", "7", "8", "9">>
DigitValue(c) == CHOOSE d \in 0..9 : DigitSeq[d + 1] = c

RECURSIVE IntOf(_)
IntOf(ds) ==
    IF ds = <<>> THEN 0
    ELSE IntOf(SubSeq(ds, 1, Len(ds) - 1)) * 10 + DigitValue(ds[Len(ds)])

IsDigit(c) == c \in DigitChars

\* plain decimal text: digits with at most one point
IsDecimal(t) ==
    /\ t # <<>>
    /\ \A i \in 1..Len(t) : t[i] \in DigitChars \cup {"."}
    /\ Cardinality({i \in 1..Len(t) : t[i] = "."}) <= 1
    /\ \E i \in 1..Len(t) : t[i] \in DigitChars

NanText == <<"n", "a", "n">>

\* the texts float() accepts, among plain decimals, "nan" and other text
FloatAccepts(t) == IsDecimal(t) \/ t = NanText

\* number of digits after the point
PointDigits(t) ==
    IF \E i \in 1..Len(t) : t[i] = "."
    THEN Len(t) - (CHOOSE i \in 1..Len(t) : t[i] = ".")
    ELSE 0

\* line 55: float(text), for a text float() accepts
ParseFloat(t) ==
    IF t = NanText THEN [nan |-> TRUE, x |-> FZero]
    ELSE [nan |-> FALSE,
          x |-> FDivInt(FromInt(IntOf(SelectSeq(t, IsDigit))), 10 ^ PointDigits(t))]

\* line 60: the fallback 5.0
FallbackDuration == [nan |-> FALSE, x |-> FromInt(5)]
NoDuration == [nan |-> FALSE, x |-> FZero]

AudioText == <<"a", "u", "d", "i", "o">>

\* what ffprobe may print
AudioOutputs ==
    {<<>>, <<"a", "u", "d", "i", "o", "\n">>, <<"v", "i", "d", "e", "o", "\n">>}
DurationOutputs ==
    {<<>>, <<"1", "2", ".", "5", "\n">>, <<"7", "\n">>, <<"N", "/", "A", "\n">>,
     <<"n", "a", "n", "\n">>}

\* what the ffprobe process may do: not start at all, or exit with a status
\* after printing something
ProbeRuns(outputs) ==
    {[made |-> TRUE, started |-> FALSE, rc |-> 0, stdout |-> <<>>]}
    \cup {[made |-> TRUE, started |-> TRUE, rc |-> rc, stdout |-> out] :
             rc \in {0, 1}, out \in outputs}
NoProbe == [made |-> FALSE, started |-> FALSE, rc |-> 0, stdout |-> <<>>]

NoVal == [kind |-> "none", audio |-> FALSE, duration |-> NoDuration]
AudioVal(b) == [kind |-> "audio", audio |-> b, duration |-> NoDuration]
DurationVal(d) == [kind |-> "duration", audio |-> FALSE, duration |-> d]

NoExc == [type |-> None, from |-> None, stderr |-> None]
NoToolProc == [rc |-> 0, stderr |-> None, output |-> FALSE]
NoCmd == [built |-> FALSE, scale |-> None, mix |-> None, trim |-> NoDuration]

ToolCalls ==
    {[fn |-> "merge_video_audio", resize_mode |-> rm] : rm \in {"cover", "contain"}}
    \cup {[fn |-> "concat_videos", resize_mode |-> None],
          [fn |-> "add_background_music", resize_mode |-> None]}
NoToolCall == [fn |-> None, resize_mode |-> None]

\* no builder is running
ToolIdle ==
    /\ tpc = "idle"
    /\ tcall = NoToolCall
    /\ tprobe = NoProbe
    /\ tfail = None
    /\ tval = NoVal
    /\ tlog = <<>>
    /\ tcmd = NoCmd
    /\ tproc = NoToolProc
    /\ texc = NoExc
    /\ tret = FALSE

\* a call of one of the three builders begins
ToolInit ==
    /\ tpc = "start"
    /\ tcall \in ToolCalls
    /\ tprobe = NoProbe
    /\ tfail = None
    /\ tval = NoVal
    /\ tlog = <<>>
    /\ tcmd = NoCmd
    /\ tproc = NoToolProc
    /\ texc = NoExc
    /\ tret = FALSE

\* line 452 with lines 18-30: video_has_audio runs ffprobe without check=True
\* and compares the stripped stdout with "audio"; a process that cannot be
\* started raises inside the try
VideoHasAudio ==
    /\ tpc = "start"
    /\ tcall.fn = "merge_video_audio"
    /\ \E o \in ProbeRuns(AudioOutputs) :
          /\ tprobe' = o
          /\ IF o.started
             THEN /\ tval' = AudioVal(Strip(o.stdout) = AudioText)
                  /\ tpc' = "build"
                  /\ UNCHANGED tfail
             ELSE /\ tfail' = "FileNotFoundError"
                  /\ tpc' = "audio_except"
                  /\ UNCHANGED tval
    /\ UNCHANGED <<tcall, tlog, tcmd, tproc, texc, tret,
                   taskVars, loadVars, chunkVars, burnVars, fmtVars>>

\* lines 31-33: except Exception: log a warning, return False
AudioExcept ==
    /\ tpc = "audio_except"
    /\ tlog' = Append(tlog, [level |-> "warning", by |-> "video_has_audio", text |-> tfail])
    /\ tval' = AudioVal(FALSE)
    /\ tpc' = "build"
    /\ UNCHANGED <<tcall, tprobe, tfail, tcmd, tproc, texc, tret,
                   taskVars, loadVars, chunkVars, burnVars, fmtVars>>

\* line 547 with lines 46-57: get_video_duration runs ffprobe with check=True
\* and returns float(stdout.strip()); a process that cannot be started, a
\* non-zero exit and a text float() rejects raise inside the try
GetVideoDuration ==
    /\ tpc = "start"
    /\ tcall.fn = "add_background_music"
    /\ \E o \in ProbeRuns(DurationOutputs) :
          /\ tprobe' = o
          /\ IF o.started /\ o.rc = 0 /\ FloatAccepts(Strip(o.stdout))
             THEN /\ tval' = DurationVal(ParseFloat(Strip(o.stdout)))
                  /\ tpc' = "build"
                  /\ UNCHANGED tfail
             ELSE /\ tfail' = IF ~o.started THEN "FileNotFoundError"
                              ELSE IF o.rc # 0 THEN "CalledProcessError"
                              ELSE "ValueError"
                  /\ tpc' = "duration_except"
                  /\ UNCHANGED tval
    /\ UNCHANGED <<tcall, tlog, tcmd, tproc, texc, tret,
                   taskVars, loadVars, chunkVars, burnVars, fmtVars>>

\* lines 58-59: except Exception: log a warning
DurationExcept ==
    /\ tpc = "duration_except"
    /\ tlog' = Append(tlog, [level |-> "warning", by |-> "get_video_duration", text |-> tfail])
    /\ tpc' = "duration_fallback"
    /\ UNCHANGED <<tcall, tprobe, tfail, tval, tcmd, tproc, texc, tret,
                   taskVars, loadVars, chunkVars, burnVars, fmtVars>>

\* line 60: return 5.0
DurationFallback ==
    /\ tpc = "duration_fallback"
    /\ tval' = DurationVal(FallbackDuration)
    /\ tpc' = "build"
    /\ UNCHANGED <<tcall, tprobe, tfail, tlog, tcmd, tproc, texc, tret,
                   taskVars, loadVars, chunkVars, burnVars, fmtVars>>

\* lines 446-487, 511-518, 552-572: the filter and the command, built from
\* the arguments and the probed value
BuildCommand ==
    /\ \/ tpc = "build"
       \/ tpc = "start" /\ tcall.fn = "concat_videos"
    /\ tcmd' =
          IF tcall.fn = "merge_video_audio"
          THEN [built |-> TRUE,
                scale |-> IF tcall.resize_mode = "cover" THEN "crop" ELSE "pad",
                mix |-> IF tval.audio THEN "video+audio" ELSE "audio",
                trim |-> NoDuration]
          ELSE IF tcall.fn = "add_background_music"
          THEN [built |-> TRUE, scale |-> None, mix |-> "video+music",
                trim |-> tval.duration]
          ELSE [built |-> TRUE, scale |-> None, mix |-> None, trim |-> NoDuration]
    /\ tpc' = "run"
    /\ UNCHANGED <<tcall, tprobe, tfail, tval, tlog, tproc, texc, tret,
                   taskVars, loadVars, chunkVars, burnVars, fmtVars>>

\* lines 489, 520, 577: subprocess.run(cmd, check=True): exit status 0 and a
\* normal return, with or without an output file; a non-zero exit, with or
\* without an output file
\* (CalledProcessError carrying the tool's stderr); or the tool cannot be
\* started (not caught by the builder).  Lines 582-586: after exit status 0
\* add_background_music logs an error when the output file does not exist.
RunTool ==
    /\ tpc = "run"
    /\ \/ /\ \E d \in Diagnostics, out \in BOOLEAN :
                /\ tproc' = [rc |-> 0, stderr |-> d, output |-> out]
                /\ tlog' = IF tcall.fn = "add_background_music" /\ ~out
                           THEN Append(tlog, [level |-> "error", by |-> tcall.fn,
                                              text |-> "Output file does not exist"])
                           ELSE tlog
          /\ tret' = TRUE
          /\ tpc' = "done"
          /\ UNCHANGED texc
       \/ /\ \E rc \in FailureCodes, d \in Diagnostics, out \in BOOLEAN :
                /\ tproc' = [rc |-> rc, stderr |-> d, output |-> out]
                /\ texc' = [type |-> "CalledProcessError", from |-> "ffmpeg", stderr |-> d]
          /\ tpc' = "except"
          /\ UNCHANGED <<tret, tlog>>
       \/ /\ texc' = [type |-> "FileNotFoundError", from |-> "ffmpeg", stderr |-> None]
          /\ tpc' = "done"
          /\ UNCHANGED <<tproc, tret, tlog>>
    /\ UNCHANGED <<tcall, tprobe, tfail, tval, tcmd,
                   taskVars, loadVars, chunkVars, burnVars, fmtVars>>

\* Variant of ToolExcept: the failure is logged and the builder returns.
ToolExcept_Swallow ==
    /\ tpc = "except"
    /\ tlog' = Append(tlog, [level |-> "error", by |-> tcall.fn, text |-> texc.stderr])
    /\ texc' = NoExc
    /\ tret' = TRUE
    /\ tpc' = "done"
    /\ UNCHANGED <<tcall, tprobe, tfail, tval, tcmd, tproc,
                   taskVars, loadVars, chunkVars, burnVars, fmtVars>>

\* lines 492-494, 523-525, 591-593: except CalledProcessError as e: log
\* e.stderr as an error and re-raise e
ToolExcept ==
    /\ tpc = "except"
    /\ tlog' = Append(tlog, [level |-> "error", by |-> tcall.fn, text |-> texc.stderr])
    /\ tpc' = "done"
    /\ UNCHANGED <<tcall, tprobe, tfail, tval, tcmd, tproc, texc, tret,
                   taskVars, loadVars, chunkVars, burnVars, fmtVars>>

(***************************************************************************)
(* _load_whisper_model (processors.py 29-43), one action per read or       *)
(* write of the two globals; the function runs in an executor thread, so   *)
(* other tasks' threads may run between any two of these steps.            *)
(***************************************************************************)

\* Where control goes when _load_whisper_model returns or raises.
AfterLoad(t, ok) ==
    IF caller[t] = "task"
    THEN (IF ok THEN "transcribe" ELSE "handler")
    ELSE "idle"

\* What a caller of _load_whisper_model observes of one completed call: the
\* requested size, whether whisper.load_model was invoked, whether the call
\* returned (ok) or raised, the model returned, and the two globals before
\* and after the call.
Req(t, loaded, ok, model) ==
    [size |-> arg[t], loaded |-> loaded, ok |-> ok, model |-> model,
     cacheBefore |-> seen[t][1], sizeBefore |-> seen[t][2],
     cacheAfter |-> cache, sizeAfter |-> cacheSize]

\* line 33, left operand: _whisper_model_cache is None
LCheckCache(t) ==
    /\ pc[t] = "l_check_cache"
    /\ pc' = [pc EXCEPT ![t] = IF cache = NoModel THEN "l_load" ELSE "l_check_size"]
    /\ UNCHANGED <<status, trace, fault, videoFile, caller, loadVars, chunkVars, burnVars, fmtVars, toolVars>>

\* Variant of LCheckSize: a non-empty cache is used whatever size it holds.
LCheckSize_IgnoreSize(t) ==
    /\ pc[t] = "l_check_size"
    /\ pc' = [pc EXCEPT ![t] = "l_return"]
    /\ UNCHANGED <<status, trace, fault, videoFile, caller, loadVars, chunkVars, burnVars, fmtVars, toolVars>>

\* line 33, right operand: _whisper_model_size != model_size
LCheckSize(t) ==
    /\ pc[t] = "l_check_size"
    /\ pc' = [pc EXCEPT ![t] = IF cacheSize # arg[t] THEN "l_load" ELSE "l_return"]
    /\ UNCHANGED <<status, trace, fault, videoFile, caller, loadVars, chunkVars, burnVars, fmtVars, toolVars>>

\* line 38, right-hand side: whisper.load_model(model_size, ...) returns a model
LLoadOk(t) ==
    /\ pc[t] = "l_load"
    /\ loads' = Append(loads, arg[t])
    /\ tmp' = [tmp EXCEPT ![t] = Model(arg[t], Len(loads) + 1)]
    /\ pc' = [pc EXCEPT ![t] = "l_store_cache"]
    /\ UNCHANGED <<status, trace, fault, videoFile, caller, cache, cacheSize, arg, got, seen, reqs, chunkVars, burnVars, fmtVars, toolVars>>

\* line 38, right-hand side: whisper.load_model raises; nothing is stored
LLoadRaise(t) ==
    /\ pc[t] = "l_load"
    /\ loads' = Append(loads, arg[t])
    /\ pc' = [pc EXCEPT ![t] = AfterLoad(t, FALSE)]
    /\ fault' = [fault EXCEPT ![t] = IF caller[t] = "task" THEN "load" ELSE fault[t]]
    /\ reqs' = IF caller[t] = "direct"
               THEN Append(reqs, Req(t, TRUE, FALSE, NoModel))
               ELSE reqs
    /\ UNCHANGED <<status, trace, videoFile, caller, cache, cacheSize, arg, tmp, got, seen, chunkVars, burnVars, fmtVars, toolVars>>

\* line 38, assignment: _whisper_model_cache = <loaded model>
LStoreCache(t) ==
    /\ pc[t] = "l_store_cache"
    /\ cache' = tmp[t]
    /\ pc' = [pc EXCEPT ![t] = "l_store_size"]
    /\ UNCHANGED <<status, trace, fault, videoFile, caller, cacheSize, loads, arg, tmp, got, seen, reqs, chunkVars, burnVars, fmtVars, toolVars>>

\* line 40: _whisper_model_size = model_size
LStoreSize(t) ==
    /\ pc[t] = "l_store_size"
    /\ cacheSize' = arg[t]
    /\ pc' = [pc EXCEPT ![t] = "l_return"]
    /\ UNCHANGED <<status, trace, fault, videoFile, caller, cache, loads, arg, tmp, got, seen, reqs, chunkVars, burnVars, fmtVars, toolVars>>

\* line 43: return _whisper_model_cache (the global, read now)
LReturn(t) ==
    /\ pc[t] = "l_return"
    /\ got' = [got EXCEPT ![t] = cache]
    /\ pc' = [pc EXCEPT ![t] = AfterLoad(t, TRUE)]
    /\ reqs' = IF caller[t] = "direct"
               THEN Append(reqs, Req(t, tmp[t] # NoModel, TRUE, cache))
               ELSE reqs
    /\ UNCHANGED <<status, trace, fault, videoFile, caller, cache, cacheSize, loads, arg, tmp, seen, chunkVars, burnVars, fmtVars, toolVars>>

\* A direct call _load_whisper_model(size), made while no other call runs.
CallLoad(t, size) ==
    /\ \A u \in Tasks : pc[u] = "idle"
    /\ Len(reqs) < MaxCalls
    /\ arg' = [arg EXCEPT ![t] = size]
    /\ tmp' = [tmp EXCEPT ![t] = NoModel]
    /\ seen' = [seen EXCEPT ![t] = <<cache, cacheSize>>]
    /\ pc' = [pc EXCEPT ![t] = "l_check_cache"]
    /\ UNCHANGED <<status, trace, fault, videoFile, caller, cache, cacheSize, loads, got, reqs, chunkVars, burnVars, fmtVars, toolVars>>

\* A direct call _load_whisper_model(size), made from its own thread while
\* other calls may be running.
CallLoadConcurrent(t, size) ==
    /\ pc[t] = "idle"
    /\ Len(reqs) + Cardinality({u \in Tasks : pc[u] # "idle"}) < MaxCalls
    /\ arg' = [arg EXCEPT ![t] = size]
    /\ tmp' = [tmp EXCEPT ![t] = NoModel]
    /\ seen' = [seen EXCEPT ![t] = <<cache, cacheSize>>]
    /\ pc' = [pc EXCEPT ![t] = "l_check_cache"]
    /\ UNCHANGED <<status, trace, fault, videoFile, caller, cache, cacheSize, loads, got, reqs, chunkVars, burnVars, fmtVars, toolVars>>

LoadStep(t) ==
    \/ LCheckCache(t)
    \/ LCheckSize(t)
    \/ LLoadOk(t)
    \/ LLoadRaise(t)
    \/ LStoreCache(t)
    \/ LStoreSize(t)
    \/ LReturn(t)

(***************************************************************************)
(* process_caption_task (processors.py 46-135 and the remainder of the     *)
(* function as the specification describes it, steps 7 and 8).             *)
(***************************************************************************)

Log(t, ev) == [trace EXCEPT ![t] = Append(trace[t], ev)]

\* An exception raised inside the try propagates to the handler; step is the
\* entry of trace logged last, "nothing" when the trace is empty.
Raise(t, step) ==
    /\ fault' = [fault EXCEPT ![t] = step]
    /\ pc' = [pc EXCEPT ![t] = "handler"]

LastLogged(tr) == IF tr = <<>> THEN "nothing" ELSE tr[Len(tr)]

\* specification 6, status store collaborator: setStatus(task_id, status).
\* The store is not part of the source; its failures are not retried and the
\* transition is best effort, so a call may leave the status as it was
\* (written = FALSE).  Whether the call then returns or raises is the
\* caller's branch.
SetStatus(t, s, written) ==
    /\ status' = IF written THEN [status EXCEPT ![t] = s] ELSE status
    /\ trace' = IF written THEN Log(t, s) ELSE trace

\* lines 58-69: supabase_service.update_task_status(task_id, RUNNING), then
\* task_data["video_url"] and the path of the input file, all inside the try
\* of line 57.  The write happens or not; the lines return, or raise (the
\* store's exception at line 62, or KeyError at line 65 for a task without
\* "video_url") and the handler is entered.
MarkRunning(t) ==
    /\ pc[t] = "start"
    /\ \E written \in BOOLEAN :
          /\ SetStatus(t, "RUNNING", written)
          /\ \/ pc' = [pc EXCEPT ![t] = "disk"] /\ UNCHANGED fault
             \/ Raise(t, IF written THEN "RUNNING" ELSE LastLogged(trace[t]))
    /\ UNCHANGED <<videoFile, caller, loadVars, chunkVars, burnVars, fmtVars, toolVars>>

\* lines 71-72: check_disk_space(...); raise Exception("Insufficient disk space")
DiskCheck(t) ==
    /\ pc[t] = "disk"
    /\ trace' = Log(t, "disk")
    /\ \/ pc' = [pc EXCEPT ![t] = "download"] /\ UNCHANGED fault
       \/ Raise(t, "disk")
    /\ UNCHANGED <<status, videoFile, caller, loadVars, chunkVars, burnVars, fmtVars, toolVars>>

\* lines 74-76: await download_file(video_url, video_path), then the log line
\* that divides file_size.  The task suspends at the await: the download is
\* started, a file may appear at video_path while it runs, and it returns or
\* raises (also when line 76 raises on the size it returned), each a step of
\* its own between which other tasks run.
Download(t) ==
    \/ /\ pc[t] = "download"
       /\ trace' = Log(t, "download")
       /\ pc' = [pc EXCEPT ![t] = "downloading"]
       /\ UNCHANGED <<status, fault, videoFile, caller, loadVars, chunkVars, burnVars, fmtVars, toolVars>>
    \/ /\ pc[t] = "downloading"
       /\ ~videoFile[t]
       /\ videoFile' = [videoFile EXCEPT ![t] = TRUE]
       /\ UNCHANGED <<pc, status, trace, fault, caller, loadVars, chunkVars, burnVars, fmtVars, toolVars>>
    \/ /\ pc[t] = "downloading"
       /\ \/ pc' = [pc EXCEPT ![t] = "exists"] /\ UNCHANGED fault
          \/ Raise(t, "download")
       /\ UNCHANGED <<status, trace, videoFile, caller, loadVars, chunkVars, burnVars, fmtVars, toolVars>>

\* lines 78-79: if not os.path.exists(video_path): raise
CheckFile(t) ==
    /\ pc[t] = "exists"
    /\ trace' = Log(t, "exists")
    /\ IF videoFile[t]
       THEN pc' = [pc EXCEPT ![t] = "acquire"] /\ UNCHANGED fault
       ELSE Raise(t, "exists")
    /\ UNCHANGED <<status, videoFile, caller, loadVars, chunkVars, burnVars, fmtVars, toolVars>>

\* lines 83-85: run_in_executor(executor, _load_whisper_model, model_size)
AcquireModel(t) ==
    /\ pc[t] = "acquire"
    /\ trace' = Log(t, "load")
    /\ arg' = [arg EXCEPT ![t] = PipelineModelSize]
    /\ tmp' = [tmp EXCEPT ![t] = NoModel]
    /\ pc' = [pc EXCEPT ![t] = "l_check_cache"]
    /\ UNCHANGED <<status, fault, videoFile, caller, cache, cacheSize, loads, got, seen, reqs, chunkVars, burnVars, fmtVars, toolVars>>

\* lines 89-101: await run_in_executor(executor, lambda: model.transcribe(...)).
\* The call is handed to the executor thread and the task suspends; it
\* returns or raises in a later step, other tasks running in between.
Transcribe(t) ==
    \/ /\ pc[t] = "transcribe"
       /\ trace' = Log(t, "transcribe")
       /\ pc' = [pc EXCEPT ![t] = "transcribing"]
       /\ UNCHANGED <<status, fault, videoFile, caller, loadVars, chunkVars, burnVars, fmtVars, toolVars>>
    \/ /\ pc[t] = "transcribing"
       /\ \/ pc' = [pc EXCEPT ![t] = "render"] /\ UNCHANGED fault
          \/ Raise(t, "transcribe")
       /\ UNCHANGED <<status, trace, videoFile, caller, loadVars, chunkVars, burnVars, fmtVars, toolVars>>

\* lines 132-135: ass_text = write_ass(subtitles, ..., settings=caption_settings)
Render(t) ==
    /\ pc[t] = "render"
    /\ trace' = Log(t, "render")
    /\ \/ pc' = [pc EXCEPT ![t] = "burn"] /\ UNCHANGED fault
       \/ Raise(t, "render")
    /\ UNCHANGED <<status, videoFile, caller, loadVars, chunkVars, burnVars, fmtVars, toolVars>>

\* specification 4.5 step 7: burn-in -> final output path
BurnIn(t) ==
    /\ pc[t] = "burn"
    /\ trace' = Log(t, "burn")
    /\ \/ pc' = [pc EXCEPT ![t] = "succeed"] /\ UNCHANGED fault
       \/ Raise(t, "burn")
    /\ UNCHANGED <<status, videoFile, caller, loadVars, chunkVars, burnVars, fmtVars, toolVars>>

\* specification 4.5 step 8: mark SUCCEEDED.  The write happens or not
\* (specification 6); the step returns, or fails and, like any step's
\* failure, hands the task to the handler.
MarkSucceeded(t) ==
    /\ pc[t] = "succeed"
    /\ \E written \in BOOLEAN :
          /\ SetStatus(t, "SUCCEEDED", written)
          /\ \/ pc' = [pc EXCEPT ![t] = "cleanup"] /\ UNCHANGED fault
             \/ Raise(t, IF written THEN "SUCCEEDED" ELSE LastLogged(trace[t]))
    /\ UNCHANGED <<videoFile, caller, loadVars, chunkVars, burnVars, fmtVars, toolVars>>

\* specification 4.5: any step's failure marks the task FAILED and stops the
\* pipeline.  The write happens or not (specification 6); a store failure
\* here is not retried, and the temp resources are released either way.
MarkFailed(t) ==
    /\ pc[t] = "handler"
    /\ \E written \in BOOLEAN : SetStatus(t, "FAILED", written)
    /\ pc' = [pc EXCEPT ![t] = "cleanup"]
    /\ UNCHANGED <<fault, videoFile, caller, loadVars, chunkVars, burnVars, fmtVars, toolVars>>

\* specification 4.5 step 8 / section 5: release temp resources on every exit path
Cleanup(t) ==
    /\ pc[t] = "cleanup"
    /\ videoFile' = [videoFile EXCEPT ![t] = FALSE]
    /\ pc' = [pc EXCEPT ![t] = "done"]
    /\ UNCHANGED <<status, trace, fault, caller, loadVars, chunkVars, burnVars, fmtVars, toolVars>>

TaskStep(t) ==
    \/ MarkRunning(t)
    \/ DiskCheck(t)
    \/ Download(t)
    \/ CheckFile(t)
    \/ AcquireModel(t)
    \/ Transcribe(t)
    \/ Render(t)
    \/ BurnIn(t)
    \/ MarkSucceeded(t)
    \/ MarkFailed(t)
    \/ Cleanup(t)

LoadInit ==
    /\ cache = NoModel
    /\ cacheSize = None
    /\ loads = <<>>
    /\ arg = [t \in Tasks |-> None]
    /\ tmp = [t \in Tasks |-> NoModel]
    /\ got = [t \in Tasks |-> NoModel]
    /\ seen = [t \in Tasks |-> <<NoModel, None>>]
    /\ reqs = <<>>

Init ==
    /\ pc = [t \in Tasks |-> "start"]
    /\ status = [t \in Tasks |-> "PENDING"]
    /\ trace = [t \in Tasks |-> <<>>]
    /\ fault = [t \in Tasks |-> None]
    /\ videoFile = [t \in Tasks |-> FALSE]
    /\ caller = [t \in Tasks |-> "task"]
    /\ LoadInit
    /\ FmtIdle
    /\ ToolIdle
    /\ ChunkInit
    /\ BurnIdle

Next == \E t \in Tasks : TaskStep(t) \/ LoadStep(t)

Spec == Init /\ [][Next]_vars

(***************************************************************************)
(* Sequential (non-overlapping) direct calls of _load_whisper_model.       *)
(***************************************************************************)
InitSeq ==
    /\ pc = [t \in Tasks |-> "idle"]
    /\ status = [t \in Tasks |-> "PENDING"]
    /\ trace = [t \in Tasks |-> <<>>]
    /\ fault = [t \in Tasks |-> None]
    /\ videoFile = [t \in Tasks |-> FALSE]
    /\ caller = [t \in Tasks |-> "direct"]
    /\ LoadInit
    /\ FmtIdle
    /\ ToolIdle
    /\ ChunkInit
    /\ BurnIdle

NextSeq == \E t \in Tasks : (\E size \in Sizes : CallLoad(t, size)) \/ LoadStep(t)

SpecSeq == InitSeq /\ [][NextSeq]_vars

(***************************************************************************)
(* Direct calls of _load_whisper_model made concurrently, each from its    *)
(* own thread, for any sizes.                                              *)
(***************************************************************************)
NextConc ==
    \E t \in Tasks : (\E size \in Sizes : CallLoadConcurrent(t, size)) \/ LoadStep(t)

SpecConc == InitSeq /\ [][NextConc]_vars

\* no task runs and no direct call of the loader is made
TasksIdle ==
    /\ pc = [t \in Tasks |-> "idle"]
    /\ status = [t \in Tasks |-> "PENDING"]
    /\ trace = [t \in Tasks |-> <<>>]
    /\ fault = [t \in Tasks |-> None]
    /\ videoFile = [t \in Tasks |-> FALSE]
    /\ caller = [t \in Tasks |-> "direct"]
    /\ LoadInit

(***************************************************************************)
(* Calls of write_srt and write_ass on their own.                          *)
(***************************************************************************)
InitChunk == TasksIdle /\ FmtIdle /\ ToolIdle /\ ChunkInit /\ BurnIdle

NextChunk == CallWriteSrt \/ CallWriteAss \/ WriterDone

SpecChunk == InitChunk /\ [][NextChunk]_vars

(***************************************************************************)
(* A call of burn_subtitles on its own.                                    *)
(***************************************************************************)
InitBurn == TasksIdle /\ FmtIdle /\ ToolIdle /\ ChunkInit /\ BurnInit

NextBurn == BSelect \/ BOpen \/ BWrite \/ BPrepare \/ BRun \/ BFinally

SpecBurn == InitBurn /\ [][NextBurn]_vars

(***************************************************************************)
(* Calls of format_time and format_time_ass on their own.                  *)
(***************************************************************************)
InitFmt == TasksIdle /\ FmtIdle /\ ToolIdle /\ ChunkInit /\ BurnIdle

NextFmt == CallFormatTime \/ CallFormatTimeAss \/ FmtDone

SpecFmt == InitFmt /\ [][NextFmt]_vars

(***************************************************************************)
(* A call of one of the four builders on its own.                          *)
(***************************************************************************)
InitBuild ==
    /\ TasksIdle
    /\ FmtIdle
    /\ ChunkInit
    /\ \/ BurnInit /\ ToolIdle
       \/ BurnIdle /\ ToolInit

NextTool ==
    \/ VideoHasAudio
    \/ AudioExcept
    \/ GetVideoDuration
    \/ DurationExcept
    \/ DurationFallback
    \/ BuildCommand
    \/ RunTool
    \/ ToolExcept

NextBuild == NextBurn \/ NextTool

SpecBuild == InitBuild /\ [][NextBuild]_vars

(***************************************************************************)
(* Observations used by the properties.                                    *)
(***************************************************************************)
IsStatusWrite(e) == e \in StatusWrites
IsStep(e) == e \notin StatusWrites

\* The status writes of task t, in order.
StatusLog(t) == SelectSeq(trace[t], IsStatusWrite)

\* The pipeline steps task t has started, in order.
StepLog(t) == SelectSeq(trace[t], IsStep)

PipelineOrder == <<"disk", "download", "exists", "load", "transcribe", "render", "burn">>

IsPrefix(s, r) == Len(s) <= Len(r) /\ s = SubSeq(r, 1, Len(s))

(***************************************************************************)
(* C1: the status of every task moves only PENDING -> RUNNING -> SUCCEEDED *)
(* or PENDING -> RUNNING -> FAILED: RUNNING is written before any other    *)
(* pipeline step starts, nothing is written after SUCCEEDED or FAILED, and *)
(* no run writes both or returns to PENDING or RUNNING.                    *)
(***************************************************************************)
C1_StatusLinear ==
    \A t \in Tasks :
        /\ StatusLog(t) \in {<<>>, <<"RUNNING">>, <<"RUNNING", "SUCCEEDED">>,
                             <<"RUNNING", "FAILED">>}
        /\ (trace[t] # <<>> => trace[t][1] = "RUNNING")
        /\ status[t] = IF StatusLog(t) = <<>> THEN "PENDING"
                       ELSE StatusLog(t)[Len(StatusLog(t))]

(***************************************************************************)
(* C2: when a step of the pipeline (disk check, download, file check,      *)
(* model load, transcription, rendering, burn-in) fails, the task ends     *)
(* FAILED and no later step runs for it; a failed disk-space check means   *)
(* the download is never started; no step is run twice.                    *)
(***************************************************************************)
C2_FailureStops ==
    \A t \in Tasks :
        /\ IsPrefix(StepLog(t), PipelineOrder)
        /\ (\E i \in 1..Len(PipelineOrder) : PipelineOrder[i] = fault[t]) =>
              /\ StepLog(t) # <<>>
              /\ StepLog(t)[Len(StepLog(t))] = fault[t]
              /\ pc[t] \in {"handler", "cleanup", "done"}
              /\ (pc[t] \in {"cleanup", "done"} => status[t] = "FAILED")
        /\ (fault[t] = "disk" => \A i \in 1..Len(trace[t]) : trace[t][i] # "download")

(***************************************************************************)
(* C3: tasks that request the model for the same size while none is cached *)
(* cause whisper.load_model to be called exactly once in total: whenever   *)
(* every task has obtained its model, one load call has been made.         *)
(***************************************************************************)
C3_SingleLoad ==
    (\A t \in Tasks : got[t] # NoModel) => Len(loads) = 1

(***************************************************************************)
(* C4: over sequential calls of _load_whisper_model the loader is called   *)
(* for a request exactly when the cache is empty or holds another size;    *)
(* a request that returns leaves the requested size in the single cache    *)
(* slot and returns the cached model; a request that follows a returned    *)
(* request for the same size does not load again.                          *)
(***************************************************************************)
Miss(r) == r.cacheBefore = NoModel \/ r.sizeBefore # r.size

C4_SequentialCache ==
    \A i \in 1..Len(reqs) :
        /\ reqs[i].loaded <=> Miss(reqs[i])
        /\ reqs[i].ok =>
              /\ reqs[i].sizeAfter = reqs[i].size
              /\ reqs[i].cacheAfter.size = reqs[i].size
              /\ reqs[i].model = reqs[i].cacheAfter
        /\ (i < Len(reqs) /\ reqs[i].ok /\ reqs[i + 1].size = reqs[i].size)
              => ~reqs[i + 1].loaded

C4_Witness ==
    /\ Len(reqs) = 3
    /\ reqs[1].loaded /\ reqs[1].ok
    /\ reqs[2].size = reqs[1].size /\ ~reqs[2].loaded
    /\ reqs[3].size # reqs[2].size /\ reqs[3].loaded /\ reqs[3].ok

\* C4 as stated: after every request, also one whose load raised, the slot
\* holds the requested size, and the second of two consecutive requests for
\* one size never loads.
C4_AsStated ==
    \A i \in 1..Len(reqs) :
        /\ reqs[i].loaded <=> Miss(reqs[i])
        /\ reqs[i].sizeAfter = reqs[i].size
        /\ (i < Len(reqs) /\ reqs[i + 1].size = reqs[i].size) => ~reqs[i + 1].loaded

(***************************************************************************)
(* C5: once a call of burn_subtitles has returned or raised, the sidecar   *)
(* file it wrote does not exist, in the ASS and in the SRT branch, whether *)
(* the tool succeeded, exited non-zero, or an earlier step failed.         *)
(***************************************************************************)
C5_SidecarRemoved ==
    (bpc = "done" /\ bwrote) => fs[bpath] = "absent"

C5_Witness ==
    /\ bpc = "done"
    /\ bwrote
    /\ busing = "srt"
    /\ bexc = "CalledProcessError"
    /\ fs[bpath] = "absent"

(***************************************************************************)
(* The call of write_srt or write_ass that has just returned.              *)
(***************************************************************************)
Returned(fn) == cpc = "returned" /\ cin.fn = fn
Seg == cin.subtitles[1]

\* the whitespace-separated words of the segment text, as the output format
\* spells them (upper case in the styled format)
SegWords == IF cin.fn = "write_ass" THEN Split(Upper(Seg.text)) ELSE Split(Seg.text)

RECURSIVE Flatten(_)
Flatten(ss) == IF ss = <<>> THEN <<>> ELSE Head(ss) \o Flatten(Tail(ss))

\* the words of all chunks, in order
ChunkWords == Flatten([i \in 1..Len(cout) |-> Split(cout[i].text)])

\* x * 2^-50, rounded down: the rounding error allowed on a time near x
Tolerance(x) == XDiv([i \in Limbs |-> IF i + 3 <= NumLimbs THEN x[i + 3] ELSE 0], 2 ^ 11)

Near(a, b, bound) == Leq(AbsDiff(a, b), bound)

\* the exact length of chunk i
ChunkLen(i) == XSub(cout[i].end, cout[i].start)

RECURSIVE SumLen(_)
SumLen(i) == IF i = 0 THEN FZero ELSE XAdd(SumLen(i - 1), ChunkLen(i))

(***************************************************************************)
(* C6 (amended): for a segment with end >= start and max_words_per_line    *)
(* >= 1 the chunk intervals tile the segment: the first chunk starts       *)
(* exactly at start, each chunk ends exactly where the next starts, and up *)
(* to floating-point rounding (at most 2^-50 * end) the last chunk ends at *)
(* end, every chunk has length (end-start)/chunk_count and the lengths sum *)
(* to end-start; a segment with start = end is accepted and gives chunks   *)
(* of zero duration.                                                       *)
(***************************************************************************)
C6_Tiling ==
    (Returned("write_srt") \/ Returned("write_ass")) =>
        LET n == Len(cout)
            tol == Tolerance(Seg.end)
        IN /\ n >= 1
           /\ cout[1].start = Seg.start
           /\ \A i \in 1..(n - 1) : cout[i].end = cout[i + 1].start
           /\ \A i \in 1..n : Leq(cout[i].start, cout[i].end)
           /\ Near(cout[n].end, Seg.end, tol)
           /\ \A i \in 1..n :
                 Near(XMul(ChunkLen(i), n), XSub(Seg.end, Seg.start), XMul(tol, n))
           /\ Near(SumLen(n), XSub(Seg.end, Seg.start), tol)
           /\ (Seg.start = Seg.end =>
                 \A i \in 1..n : cout[i].start = Seg.start /\ cout[i].end = Seg.start)

C6_Witness ==
    /\ Returned("write_ass")
    /\ Len(cout) = 3
    /\ Seg.start # FZero
    /\ cout[3].end = Seg.end
    /\ cout[1].end # cout[1].start

\* C6 as stated: the last chunk ends at end, every chunk has the length
\* (end-start)/chunk_count and the lengths sum to end-start, all exactly.
C6_AsStated ==
    (Returned("write_srt") \/ Returned("write_ass")) =>
        LET n == Len(cout)
        IN /\ n >= 1
           /\ cout[1].start = Seg.start
           /\ \A i \in 1..(n - 1) : cout[i].end = cout[i + 1].start
           /\ cout[n].end = Seg.end
           /\ \A i \in 1..n : XMul(ChunkLen(i), n) = XSub(Seg.end, Seg.start)
           /\ SumLen(n) = XSub(Seg.end, Seg.start)

(***************************************************************************)
(* C7 (amended): a text of w words and a limit m >= 1 give max(1,          *)
(* ceil(w/m)) chunks, which are consecutive groups of the words in their   *)
(* order; every chunk but the last holds m words; the last holds between 1 *)
(* and m words when w >= 1 and no word when w = 0; the chunks' words in    *)
(* order are the segment's words.                                          *)
(***************************************************************************)
CeilDiv(w, m) == (w + m - 1) \div m

C7_Chunking ==
    (Returned("write_srt") \/ Returned("write_ass")) =>
        LET n == Len(cout)
            w == Len(SegWords)
        IN /\ n = IF w = 0 THEN 1 ELSE CeilDiv(w, cin.m)
           /\ \A i \in 1..(n - 1) : Len(Split(cout[i].text)) = cin.m
           /\ (w >= 1 => Len(Split(cout[n].text)) \in 1..cin.m)
           /\ (w = 0 => Len(Split(cout[n].text)) = 0)
           /\ ChunkWords = SegWords

C7_Witness ==
    /\ Returned("write_srt")
    /\ Len(SegWords) = 7
    /\ cin.m = 3
    /\ Len(cout) = 3
    /\ Len(Split(cout[1].text)) = 3
    /\ Len(Split(cout[2].text)) = 3
    /\ Len(Split(cout[3].text)) = 1

\* C7 as stated: the last chunk always holds between 1 and m words.
C7_AsStated ==
    (Returned("write_srt") \/ Returned("write_ass")) =>
        LET n == Len(cout)
            w == Len(SegWords)
        IN /\ n = IF w = 0 THEN 1 ELSE CeilDiv(w, cin.m)
           /\ \A i \in 1..(n - 1) : Len(Split(cout[i].text)) = cin.m
           /\ Len(Split(cout[n].text)) \in 1..cin.m
           /\ ChunkWords = SegWords

(***************************************************************************)
(* C8 (amended): a segment of at most max_words_per_line words (also one   *)
(* without words) gives exactly one chunk; its text is the segment text    *)
(* without leading and trailing whitespace (upper-cased in the styled      *)
(* format); its interval starts exactly at start and ends at end up to     *)
(* floating-point rounding (at most 2^-50 * end).                          *)
(***************************************************************************)
AllWhite(s) == \A i \in 1..Len(s) : s[i] \in WhiteSpace

\* t is s without its leading and trailing whitespace
IsTrimOf(t, s) ==
    /\ (t # <<>> => t[1] \notin WhiteSpace /\ t[Len(t)] \notin WhiteSpace)
    /\ \E a \in 0..Len(s) :
          /\ a + Len(t) <= Len(s)
          /\ SubSeq(s, a + 1, a + Len(t)) = t
          /\ AllWhite(SubSeq(s, 1, a))
          /\ AllWhite(SubSeq(s, a + Len(t) + 1, Len(s)))

SegTextAsWritten == IF cin.fn = "write_ass" THEN Upper(Seg.text) ELSE Seg.text

C8_SingleChunk ==
    ((Returned("write_srt") \/ Returned("write_ass")) /\ Len(SegWords) <= cin.m) =>
        /\ Len(cout) = 1
        /\ IsTrimOf(cout[1].text, SegTextAsWritten)
        /\ cout[1].start = Seg.start
        /\ Near(cout[1].end, Seg.end, Tolerance(Seg.end))

C8_Witness ==
    /\ Returned("write_ass")
    /\ Len(SegWords) = 2
    /\ cin.m = 2
    /\ Len(Seg.text) > Len(cout[1].text)
    /\ cout[1].text # Strip(Seg.text)
    /\ cout[1].end = Seg.end
    /\ Seg.start # Seg.end

\* C8 as stated: the chunk's interval is exactly [start, end].
C8_AsStated ==
    ((Returned("write_srt") \/ Returned("write_ass")) /\ Len(SegWords) <= cin.m) =>
        /\ Len(cout) = 1
        /\ IsTrimOf(cout[1].text, SegTextAsWritten)
        /\ cout[1].start = Seg.start
        /\ cout[1].end = Seg.end

(***************************************************************************)
(* C9 (amended): in write_ass, in each chunk that has at least one word,   *)
(* the word selected by highlight-position ("first": index 0, "last": the  *)
(* chunk's last index, an integer k: index k) is wrapped in the highlight  *)
(* colour escape followed by the reset to the primary colour, and no other *)
(* word is; an integer out of the chunk's range highlights nothing; the    *)
(* other words are unchanged, in order, separated by single spaces.  A     *)
(* chunk without words is written as it is, with no highlight.             *)
(***************************************************************************)
HighlightEscape == <<"{", "\\", "c", "&", "H", "0", "0", "0", "0", "F", "F", "F", "F", "}">>
PrimaryEscape == <<"{", "\\", "c", "&", "H", "0", "0", "F", "F", "F", "F", "F", "F", "}">>

\* the index (from 0) the claim says is selected among n words
SelectedIndex(hp, n) ==
    IF hp.kind = "first" THEN 0
    ELSE IF hp.kind = "last" THEN n - 1
    ELSE hp.k

Highlighted(e) == {i \in 1..Len(e.fwords) : e.fwords[i] # Split(e.text)[i]}

C9_Highlight ==
    (Returned("write_ass") /\ cin.hp # Absent) =>
        \A c \in 1..Len(cout) :
            LET e == cout[c]
                ws == Split(e.text)
                sel == SelectedIndex(cin.hp, Len(ws))
            IN /\ Len(e.fwords) = Len(ws)
               /\ \A i \in 1..Len(ws) :
                     e.fwords[i] = IF i - 1 = sel
                                   THEN HighlightEscape \o ws[i] \o PrimaryEscape
                                   ELSE ws[i]
               /\ Cardinality(Highlighted(e)) = IF sel \in 0..(Len(ws) - 1) THEN 1 ELSE 0
               /\ (Len(ws) > 0 => e.line = JoinWith(e.fwords, <<" ">>))
               /\ (Len(ws) > 0 /\ cin.hp.kind \in {"first", "last"}
                     => Cardinality(Highlighted(e)) = 1)
               /\ (Len(ws) = 0 => e.line = e.text)

C9_Witness ==
    /\ Returned("write_ass")
    /\ cin.hp = Index(1)
    /\ Len(cout) = 3
    /\ Highlighted(cout[1]) = {2}
    /\ Highlighted(cout[3]) = {}

\* C9 as stated: every chunk has exactly one highlighted word when the
\* position is "first", "last" or an integer in the chunk's range.
C9_AsStated ==
    (Returned("write_ass") /\ cin.hp # Absent) =>
        \A c \in 1..Len(cout) :
            LET e == cout[c]
                ws == Split(e.text)
                sel == SelectedIndex(cin.hp, Len(ws))
            IN /\ Len(e.fwords) = Len(ws)
               /\ \A i \in 1..Len(ws) :
                     e.fwords[i] = IF i - 1 = sel
                                   THEN HighlightEscape \o ws[i] \o PrimaryEscape
                                   ELSE ws[i]
               /\ (cin.hp.kind \in {"first", "last"}
                     => Cardinality(Highlighted(e)) = 1)
               /\ (cin.hp.kind = "index"
                     => Cardinality(Highlighted(e))
                          = IF cin.hp.k \in 0..(Len(ws) - 1) THEN 1 ELSE 0)

(***************************************************************************)
(* C10: burn_subtitles takes the ASS path exactly when no settings are     *)
(* passed, or use-ass is true, or a highlight-position is present,         *)
(* whatever the other flag; it takes the SRT path only when use-ass is     *)
(* false or absent and highlight-position is absent.                       *)
(***************************************************************************)
C10_PathChoice ==
    bpc \notin {"idle", "start"} =>
        /\ busing = "ass" <=>
              \/ ~bcall.settings.given
              \/ bcall.settings.useAss = "true"
              \/ bcall.settings.hp # Absent
        /\ busing = "srt" <=>
              /\ bcall.settings.given
              /\ bcall.settings.useAss \in {"false", "absent"}
              /\ bcall.settings.hp = Absent
        /\ bpath = ReplaceAll(bcall.video_path, Mp4,
                              IF busing = "ass" THEN TempAss ELSE TempSrt)

C10_Witness ==
    /\ bpc = "done"
    /\ busing = "ass"
    /\ bcall.settings.given
    /\ bcall.settings.useAss = "false"
    /\ bcall.settings.hp = Index(0)

(***************************************************************************)
(* The call of format_time or format_time_ass that has just returned.      *)
(***************************************************************************)
FmtReturned == fpc = "returned"

\* units of the fraction field: 1000 for format_time, 100 for format_time_ass
FracUnits == IF fin.fn = "format_time" THEN 1000 ELSE 100

\* <<h, m, s, f>> compared field by field, in that order
FieldsLeq(a, b) ==
    \/ a[1] < b[1]
    \/ a[1] = b[1] /\ a[2] < b[2]
    \/ a[1] = b[1] /\ a[2] = b[2] /\ a[3] < b[3]
    \/ a[1] = b[1] /\ a[2] = b[2] /\ a[3] = b[3] /\ a[4] <= b[4]

\* the exact product of the fractional part of x and the units of the fraction
ExactFraction(x) == XMul(XSub(x, FromInt(IntPart(x))), FracUnits)

FieldsInRange(f) ==
    /\ f[1] >= 0
    /\ f[2] \in 0..59
    /\ f[3] \in 0..59
    /\ f[4] \in 0..(FracUnits - 1)

\* the whole-second fields are those of the whole seconds of x: nothing is
\* carried into them from the fraction
NoCarry(x, f) == f[1] * 3600 + f[2] * 60 + f[3] = IntPart(x)

(***************************************************************************)
(* C11 (amended): format_time and format_time_ass are monotonic            *)
(* non-decreasing over [0, 86400): for s1 <= s2 the fields (hours,         *)
(* minutes, seconds, fraction) of s1, compared in that order, are not      *)
(* greater than those of s2; minutes and seconds are in 0..59,             *)
(* milliseconds in 0..999, centiseconds in 0..99, and the fraction never   *)
(* carries into the seconds; the fraction is the truncated floating-point  *)
(* product of the fractional second and 1000 (100): the floor of the exact *)
(* product, or one more when the exact product is within floating-point    *)
(* rounding of the next whole number.                                      *)
(***************************************************************************)
C11_Monotonic ==
    FmtReturned =>
        /\ FieldsLeq(fout[1].fields, fout[2].fields)
        /\ \A i \in 1..2 :
              LET x == IF i = 1 THEN fin.s1 ELSE fin.s2
                  f == fout[i].fields
                  low == IntPart(ExactFraction(x))
              IN /\ FieldsInRange(f)
                 /\ NoCarry(x, f)
                 /\ f[4] \in {low, low + 1}
                 /\ (f[4] = low + 1 =>
                        Near(ExactFraction(x), FromInt(f[4]), Tolerance(FromInt(f[4]))))

C11_Witness ==
    /\ FmtReturned
    /\ fin.fn = "format_time"
    /\ fin.s1 = TimeOf(59, 9996)
    /\ fin.s2 = TimeOf(60, 0)
    /\ fout[1].fields = <<0, 0, 59, 999>>
    /\ fout[2].fields = <<0, 1, 0, 0>>

\* C11 as stated: the fraction field is the floor of the fractional second
\* times 1000 (100).
C11_AsStated ==
    FmtReturned =>
        /\ FieldsLeq(fout[1].fields, fout[2].fields)
        /\ \A i \in 1..2 :
              LET x == IF i = 1 THEN fin.s1 ELSE fin.s2
                  f == fout[i].fields
              IN /\ FieldsInRange(f)
                 /\ NoCarry(x, f)
                 /\ f[4] = IntPart(ExactFraction(x))

(***************************************************************************)
(* C12: in each of the four builders a non-zero exit of the external tool  *)
(* ends the call with CalledProcessError carrying the tool's stderr text;  *)
(* the call never returns normally after a non-zero exit.                  *)
(***************************************************************************)
C12_RaisesOnFailure ==
    /\ (tpc = "done" /\ tproc.rc # 0) =>
          /\ ~tret
          /\ texc.type = "CalledProcessError"
          /\ texc.stderr = tproc.stderr
    /\ (tret => tproc.rc = 0)
    /\ (bpc = "done" /\ bproc.rc # 0) =>
          /\ bexc = "CalledProcessError"
          /\ bdiag = bproc.stderr

C12_Witness ==
    /\ tpc = "done"
    /\ tcall.fn = "concat_videos"
    /\ tproc.rc = -9
    /\ tproc.stderr # ""
    /\ texc.type = "CalledProcessError"
    /\ texc.stderr = tproc.stderr
    /\ ~tret

(***************************************************************************)
(* The probe made by the builder that is running.                          *)
(***************************************************************************)
ProbeReturned == tprobe.made /\ tpc \in {"build", "run", "except", "done"}

Warned(by) == \E i \in 1..Len(tlog) : tlog[i].level = "warning" /\ tlog[i].by = by

ProbeText == Strip(tprobe.stdout)

(***************************************************************************)
(* C13: a probe failure is never propagated as an error: video_has_audio   *)
(* returns false and get_video_duration returns the fixed fallback 5.0     *)
(* whenever the probe process cannot be started, exits non-zero or prints  *)
(* unusable output; the duration fallback is logged as a warning, and the  *)
(* callers continue with the fallback value.                               *)
(***************************************************************************)
C13_ProbeFallback ==
    /\ texc.from # "ffprobe"
    /\ (ProbeReturned /\ tcall.fn = "merge_video_audio"
          /\ (~tprobe.started \/ tprobe.rc # 0 \/ ProbeText # AudioText))
          => tval = AudioVal(FALSE)
    /\ (ProbeReturned /\ tcall.fn = "add_background_music"
          /\ (~tprobe.started \/ tprobe.rc # 0 \/ ~IsDecimal(ProbeText)))
          => /\ Warned("get_video_duration")
             /\ tval = DurationVal(FallbackDuration)
             /\ (tcmd.built => tcmd.trim = FallbackDuration)
    /\ (tpc = "done" /\ tcall.fn \in {"merge_video_audio", "add_background_music"})
          => /\ tcmd.built
             /\ (tret \/ texc.from = "ffmpeg")

(***************************************************************************)
(* C14: under every interleaving of concurrent calls of                    *)
(* _load_whisper_model, also for different sizes, the model a call returns *)
(* was loaded for the size that call requested, and whenever the cache     *)
(* slot is non-empty the cached model was loaded for the recorded size.    *)
(***************************************************************************)
C14_CacheCoherent ==
    /\ \A i \in 1..Len(reqs) : reqs[i].ok => reqs[i].model.size = reqs[i].size
    /\ cache # NoModel => cache.size = cacheSize

(***************************************************************************)
(* C15: burn_subtitles never overwrites or deletes its input video: for    *)
(* every input path, with or without ".mp4" in it, the sidecar path is     *)
(* different from the input path, and the input file exists with its       *)
(* content unchanged throughout the call and after it.                     *)
(***************************************************************************)
C15_InputPreserved ==
    bpc \notin {"idle", "start"} =>
        /\ bpath # bcall.video_path
        /\ fs[bcall.video_path] = "video"

====
